---- MODULE Spec2Model ----
(***************************************************************************)
(* Correlogram engine of spikeinterface/postprocessing/correlograms.py:    *)
(* the bin planner (_make_bins), the vectorized shift counter              *)
(* (compute_correlograms_numpy / correlogram_for_one_segment) and the      *)
(* pairwise counter (compute_correlograms_numba and its jitted kernels),   *)
(* the facade compute_correlograms_on_sorting and the analyzer extension   *)
(* ComputeCorrelograms; and of spikeinterface/core/zarrextractors.py:      *)
(* super_zarr_open and the sorting written to a zarr group and read back.  *)
(*                                                                         *)
(* A tensor is a record [shape |-> <<d1, d2, d3>>, data |-> f] where f is  *)
(* the C-ordered flat buffer, a function on 0 .. d1*d2*d3-1.  Sequences    *)
(* are 1-based here and 0-based in the source.                             *)
(***************************************************************************)
EXTENDS Integers, Sequences, FiniteSets, TLC

(***************************************************************************)
(* Bounds of the model.                                                    *)
(***************************************************************************)
MaxTime == 3
MaxSpikes == 3
MaxUnits == 2
MaxWindowMs == 8
MaxBinMs == 4
\* the numbers of segments a sorting is given
SegmentCounts == {1, 2}

(***************************************************************************)
(* Arithmetic of the source language.                                      *)
(***************************************************************************)
\* Python round() of the non-negative rational n/d: nearest, ties to even.
PyRound(n, d) ==
    LET q == n \div d
        r == n % d
    IN  IF 2 * r < d THEN q
        ELSE IF 2 * r > d THEN q + 1
        ELSE IF q % 2 = 0 THEN q ELSE q + 1

\* np.floor_divide / math.floor(a / b) for b > 0.
FloorDiv(a, b) == a \div b

\* np.arange(start, stop, step) for step > 0, as a sequence.
Arange(start, stop, step) ==
    LET len == IF stop > start THEN (stop - start + step - 1) \div step ELSE 0
    IN  [k \in 1..len |-> start + (k - 1) * step]

(***************************************************************************)
(* Tensors.                                                                *)
(***************************************************************************)
Size(shape) == shape[1] * shape[2] * shape[3]

\* np.zeros(shape, dtype="int64")
Zeros(shape) == [shape |-> shape, data |-> [x \in 0..(Size(shape) - 1) |-> 0]]

\* whether np.ravel_multi_index accepts the coordinate (mode="raise")
InShape(c, shape) == \A d \in 1..3 : c[d] >= 0 /\ c[d] < shape[d]

\* np.ravel_multi_index of one coordinate, C order
RavelIndex(c, shape) == (c[1] * shape[2] + c[2]) * shape[3] + c[3]

\* t[a, b, k]
At(t, a, b, k) == t.data[RavelIndex(<<a, b, k>>, t.shape)]

(***************************************************************************)
(* Bin planner.                                                            *)
(***************************************************************************)
compute_num_bins(window_size, bin_size) ==
    LET num_half_bins == window_size \div bin_size
    IN  [num_bins |-> 2 * num_half_bins, num_half_bins |-> num_half_bins]

\* make_bins without "window_size -= window_size % bin_size"
make_bins_unclipped(fs, window_ms, bin_ms) ==
    LET window_size == PyRound(fs * window_ms, 2000)
        bin_size    == PyRound(fs * bin_ms, 1000)
    IN  IF bin_size = 0
        THEN [status |-> "ZeroDivisionError", bins |-> <<>>,
              window_size |-> window_size, bin_size |-> 0]
        ELSE LET num_bins == 2 * (window_size \div bin_size)
                 edges    == Arange(-window_size, window_size + bin_size, bin_size)
             IN  IF ~(num_bins >= 1)
                 THEN [status |-> "AssertionError", bins |-> <<>>,
                       window_size |-> window_size, bin_size |-> bin_size]
                 ELSE [status |-> "ok",
                       bins |-> [k \in 1..Len(edges) |-> [num |-> edges[k] * 1000, den |-> fs]],
                       window_size |-> window_size, bin_size |-> bin_size]

\* The bin edges are kept as exact rationals num/den (ms).
make_bins(fs, window_ms, bin_ms) ==
    LET w0       == PyRound(fs * window_ms, 2000)
        bin_size == PyRound(fs * bin_ms, 1000)
    IN  IF bin_size = 0
        THEN [status |-> "ZeroDivisionError", bins |-> <<>>, window_size |-> w0, bin_size |-> 0]
        ELSE LET window_size == w0 - (w0 % bin_size)
                 num_bins    == 2 * (window_size \div bin_size)
                 edges       == Arange(-window_size, window_size + bin_size, bin_size)
             IN  IF ~(num_bins >= 1)
                 THEN [status |-> "AssertionError", bins |-> <<>>,
                       window_size |-> window_size, bin_size |-> bin_size]
                 ELSE [status |-> "ok",
                       bins |-> [k \in 1..Len(edges) |-> [num |-> edges[k] * 1000, den |-> fs]],
                       window_size |-> window_size, bin_size |-> bin_size]

(***************************************************************************)
(* The sorting: spikes[seg] is the spike vector of one segment, a sequence *)
(* of records [sample_index, unit_index] ordered by sample_index.          *)
(***************************************************************************)
SampleIndex(seg) == [p \in 1..Len(seg) |-> seg[p].sample_index]

UnitIndex(seg) == [p \in 1..Len(seg) |-> seg[p].unit_index]

\* every segment's spikes, end to end: the spike vector with its segment
\* boundaries ignored
SegmentOfMerged(spike_vector, seg_index) ==
    LET RECURSIVE cat(_)
        cat(s) == IF s > Len(spike_vector) THEN <<>> ELSE spike_vector[s] \o cat(s + 1)
    IN  cat(1)

\* spikes[seg_index] of sorting.to_spike_vector(concatenated=False)
SegmentOf(spike_vector, seg_index) == spike_vector[seg_index]

\* len(np.unique(spike_labels))
NumUnique(spike_labels) == Cardinality({spike_labels[p] : p \in 1..Len(spike_labels)})

\* spike_times[spike_labels == u]
TrainOf(spike_times, spike_labels, u) ==
    LET RECURSIVE pick(_)
        pick(p) == IF p > Len(spike_times) THEN <<>>
                   ELSE IF spike_labels[p] = u THEN <<spike_times[p]>> \o pick(p + 1)
                   ELSE pick(p + 1)
    IN  pick(1)

(***************************************************************************)
(* Vectorized shift counter.                                               *)
(***************************************************************************)
\* mask.any(): the whole mask, not the part that still has a partner
MaskAnyWhole(mask, shift) == \E p \in 1..Len(mask) : mask[p]

\* mask[:-shift].any()
MaskAny(mask, shift) == \E p \in 1..(Len(mask) - shift) : mask[p]

\* ShiftPass with the two unit coordinates exchanged.
ShiftPassSwapped(sign, spike_times, spike_labels, shift, mask, c0, bin_size, num_half_bins) ==
    LET n == Len(spike_times) - shift
        spike_diff_b == [p \in 1..n |->
            FloorDiv((spike_times[p + shift] - spike_times[p]) * sign, bin_size)]
        newmask == [p \in 1..Len(mask) |->
            IF p <= n /\ (IF sign = -1 THEN spike_diff_b[p] < -num_half_bins
                                       ELSE spike_diff_b[p] >= num_half_bins)
            THEN FALSE ELSE mask[p]]
        m == {p \in 1..n : newmask[p]}
        coord(p) == IF sign = -1
                    THEN <<spike_labels[p + shift], spike_labels[p], spike_diff_b[p] + num_half_bins>>
                    ELSE <<spike_labels[p], spike_labels[p + shift], spike_diff_b[p] + num_half_bins>>
    IN  IF \E p \in m : ~InShape(coord(p), c0.shape)
        THEN [mask |-> newmask, c0 |-> c0, raised |-> TRUE]
        ELSE [mask |-> newmask,
              c0 |-> [c0 EXCEPT !.data = [x \in DOMAIN c0.data |->
                        c0.data[x] + Cardinality({p \in m : RavelIndex(coord(p), c0.shape) = x})]],
              raised |-> FALSE]

\* One pass of "for sign in (-1, 1)": binarize, mask, ravel, bincount, add.
ShiftPass(sign, spike_times, spike_labels, shift, mask, c0, bin_size, num_half_bins) ==
    LET n == Len(spike_times) - shift
        spike_diff_b == [p \in 1..n |->
            FloorDiv((spike_times[p + shift] - spike_times[p]) * sign, bin_size)]
        newmask == [p \in 1..Len(mask) |->
            IF p <= n /\ (IF sign = -1 THEN spike_diff_b[p] < -num_half_bins
                                       ELSE spike_diff_b[p] >= num_half_bins)
            THEN FALSE ELSE mask[p]]
        m == {p \in 1..n : newmask[p]}
        coord(p) == IF sign = 1
                    THEN <<spike_labels[p + shift], spike_labels[p], spike_diff_b[p] + num_half_bins>>
                    ELSE <<spike_labels[p], spike_labels[p + shift], spike_diff_b[p] + num_half_bins>>
    IN  IF \E p \in m : ~InShape(coord(p), c0.shape)
        THEN [mask |-> newmask, c0 |-> c0, raised |-> TRUE]
        ELSE [mask |-> newmask,
              c0 |-> [c0 EXCEPT !.data = [x \in DOMAIN c0.data |->
                        c0.data[x] + Cardinality({p \in m : RavelIndex(coord(p), c0.shape) = x})]],
              raised |-> FALSE]

\* One iteration of the while loop: the pass for sign -1, then for sign +1,
\* then shift += 1.  st = [shift, mask, c0, raised].  The result of each
\* pass is bound once, as a value, before the next statement reads it.
ShiftIteration(st, spike_times, spike_labels, bin_size, num_half_bins) ==
    LET second(neg) ==
            {IF pos.raised
             THEN [shift |-> st.shift, mask |-> pos.mask, c0 |-> pos.c0, raised |-> TRUE]
             ELSE [shift |-> st.shift + 1, mask |-> pos.mask, c0 |-> pos.c0, raised |-> FALSE] :
               pos \in {ShiftPass(1, spike_times, spike_labels, st.shift, neg.mask, neg.c0,
                                  bin_size, num_half_bins)}}
        both == UNION {IF neg.raised
                       THEN {[shift |-> st.shift, mask |-> neg.mask, c0 |-> neg.c0, raised |-> TRUE]}
                       ELSE second(neg) :
                         neg \in {ShiftPass(-1, spike_times, spike_labels, st.shift, st.mask, st.c0,
                                            bin_size, num_half_bins)}}
    IN  CHOOSE out \in both : TRUE

\* The state before the while loop.
ShiftStart(spike_times, spike_labels, window_size, bin_size) ==
    LET nb == compute_num_bins(window_size, bin_size)
        num_units == NumUnique(spike_labels)
    IN  [shift |-> 1,
         mask |-> [p \in 1..Len(spike_times) |-> TRUE],
         c0 |-> Zeros(<<num_units, num_units, nb.num_bins>>),
         raised |-> FALSE]

\* The whole function: [status, tensor].
correlogram_for_one_segment(spike_times, spike_labels, window_size, bin_size) ==
    LET nhb == compute_num_bins(window_size, bin_size).num_half_bins
        RECURSIVE loop(_)
        loop(st) == IF st.raised \/ ~MaskAny(st.mask, st.shift) THEN st
                    ELSE loop(ShiftIteration(st, spike_times, spike_labels, bin_size, nhb))
        fin == loop(ShiftStart(spike_times, spike_labels, window_size, bin_size))
    IN  [status |-> IF fin.raised THEN "ValueError" ELSE "ok", tensor |-> fin.c0]

\* "correlograms += c0": numpy broadcasting into the left operand.
CanBroadcast(out, c0) == \A d \in 1..3 : c0.shape[d] = out.shape[d] \/ c0.shape[d] = 1

AddBroadcast(out, c0) ==
    LET src(a, b, k) == At(c0, IF c0.shape[1] = 1 THEN 0 ELSE a,
                               IF c0.shape[2] = 1 THEN 0 ELSE b,
                               IF c0.shape[3] = 1 THEN 0 ELSE k)
        coordOf(x) == <<x \div (out.shape[2] * out.shape[3]),
                        (x \div out.shape[3]) % out.shape[2],
                        x % out.shape[3]>>
    IN  [out EXCEPT !.data = [x \in DOMAIN out.data |->
            out.data[x] + src(coordOf(x)[1], coordOf(x)[2], coordOf(x)[3])]]

\* The whole function: [status, tensor].
compute_correlograms_numpy(spikes, num_units, window_size, bin_size) ==
    LET nb == compute_num_bins(window_size, bin_size)
        RECURSIVE segloop(_, _)
        segloop(seg_index, acc) ==
            IF seg_index > Len(spikes) THEN [status |-> "ok", tensor |-> acc]
            ELSE LET c0 == correlogram_for_one_segment(SampleIndex(SegmentOf(spikes, seg_index)),
                               UnitIndex(SegmentOf(spikes, seg_index)), window_size, bin_size)
                 IN  IF c0.status # "ok" \/ ~CanBroadcast(acc, c0.tensor)
                     THEN [status |-> "ValueError", tensor |-> acc]
                     ELSE segloop(seg_index + 1, AddBroadcast(acc, c0.tensor))
    IN  segloop(1, Zeros(<<num_units, num_units, nb.num_bins>>))

(***************************************************************************)
(* Pairwise counter: the jitted kernels.  The kernels are compiled without *)
(* bounds checking, so a write at an index outside the histogram is        *)
(* undefined behaviour; the kernels below count such writes in oob and     *)
(* leave the histogram alone, and the caller decides what becomes of them. *)
(***************************************************************************)
\* hist[idx] += 1
HistWrite(h, idx) ==
    IF idx \in DOMAIN h.hist
    THEN [h EXCEPT !.hist[idx] = @ + 1]
    ELSE [h EXCEPT !.oob = @ + 1]

autocorr_numba(spike_times, window_size, bin_size) ==
    LET num_half_bins == window_size \div bin_size
        num_bins == 2 * num_half_bins
        n == Len(spike_times)
        RECURSIVE inner(_, _, _)
        inner(i, j, h) ==
            IF j > n THEN h
            ELSE LET diff == spike_times[j] - spike_times[i]
                 IN  IF diff > window_size THEN h
                     ELSE inner(i, j + 1,
                            HistWrite(HistWrite(h, num_half_bins + FloorDiv(diff, bin_size)),
                                      num_half_bins + FloorDiv(-diff, bin_size)))
        RECURSIVE outer(_, _)
        outer(i, h) == IF i > n THEN h ELSE outer(i + 1, inner(i, i + 1, h))
    IN  outer(1, [hist |-> [k \in 0..(num_bins - 1) |-> 0], oob |-> 0])

\* a scan whose pointer start_j moves past every index it visits
crosscorr_scan_skipping(spike_times1, spike_times2, window_size, bin_size) ==
    LET num_half_bins == window_size \div bin_size
        num_bins == 2 * num_half_bins
        n1 == Len(spike_times1)
        n2 == Len(spike_times2)
        RECURSIVE inner(_, _, _)
        inner(i, j, s) ==
            IF j > n2 THEN s
            ELSE LET diff == spike_times1[i] - spike_times2[j]
                 IN  IF diff >= window_size
                     THEN inner(i, j + 1, [s EXCEPT !.start_j = @ + 1])
                     ELSE IF diff < -window_size THEN s
                     ELSE inner(i, j + 1,
                            [s EXCEPT !.start_j = @ + 1,
                                      !.h = HistWrite(@, num_half_bins + FloorDiv(diff, bin_size))])
        RECURSIVE outer(_, _)
        outer(i, s) ==
            IF i > n1 THEN [s EXCEPT !.starts = Append(@, s.start_j)]
            ELSE outer(i + 1, inner(i, s.start_j, [s EXCEPT !.starts = Append(@, s.start_j)]))
    IN  outer(1, [start_j |-> 1, starts |-> <<>>,
                  h |-> [hist |-> [k \in 0..(num_bins - 1) |-> 0], oob |-> 0]])

\* The scan of _compute_crosscorr_numba: [start_j, starts, h].  starts[a] is
\* start_j when the outer loop reaches the a-th spike of spike_times1, and
\* the last entry of starts is start_j when the scan ends (positions count
\* from 1 here).
crosscorr_scan(spike_times1, spike_times2, window_size, bin_size) ==
    LET num_half_bins == window_size \div bin_size
        num_bins == 2 * num_half_bins
        n1 == Len(spike_times1)
        n2 == Len(spike_times2)
        \* the body of "for j in range(start_j, len(spike_times2))" from j on
        RECURSIVE inner(_, _, _)
        inner(i, j, s) ==
            IF j > n2 THEN s
            ELSE LET diff == spike_times1[i] - spike_times2[j]
                 IN  IF diff >= window_size
                     THEN inner(i, j + 1, [s EXCEPT !.start_j = @ + 1])
                     ELSE IF diff < -window_size THEN s
                     ELSE inner(i, j + 1,
                            [s EXCEPT !.h = HistWrite(@, num_half_bins + FloorDiv(diff, bin_size))])
        RECURSIVE outer(_, _)
        outer(i, s) ==
            IF i > n1 THEN [s EXCEPT !.starts = Append(@, s.start_j)]
            ELSE outer(i + 1, inner(i, s.start_j, [s EXCEPT !.starts = Append(@, s.start_j)]))
    IN  outer(1, [start_j |-> 1, starts |-> <<>>,
                  h |-> [hist |-> [k \in 0..(num_bins - 1) |-> 0], oob |-> 0]])

\* what _compute_crosscorr_numba returns: the histogram (and the count of
\* writes outside it)
crosscorr_numba(spike_times1, spike_times2, window_size, bin_size) ==
    crosscorr_scan(spike_times1, spike_times2, window_size, bin_size).h

\* correlograms[a, b, :] += hist   (hist[::-1] when reversed)
AddSlice(t, a, b, hist, reversed) ==
    LET num_bins == t.shape[3]
    IN  [t EXCEPT !.data = [x \in DOMAIN t.data |->
            IF x \div num_bins = a * t.shape[2] + b
            THEN t.data[x] + hist[IF reversed THEN num_bins - 1 - (x % num_bins) ELSE x % num_bins]
            ELSE t.data[x]]]

\* every task's inner loop starting at unit 0
RangeFromZero(i, n_units) == 0..(n_units - 1)

\* range(i, n_units)
RangeFrom(i, n_units) == i..(n_units - 1)

\* The body of "for i in numba.prange(n_units)" for one i (0-based unit).
\* r = [tensor, oob, slices]: slices collects the <<a, b>> of every slice
\* correlograms[a, b, :] the task adds to.
NumbaTask(r, spike_times, spike_labels, window_size, bin_size, i) ==
    LET n_units == r.tensor.shape[1]
        spike_times1 == TrainOf(spike_times, spike_labels, i)
        RECURSIVE jloop(_, _)
        jloop(j, acc) ==
            IF j \notin RangeFrom(i, n_units) THEN acc
            ELSE LET spike_times2 == TrainOf(spike_times, spike_labels, j)
                 IN  IF i = j
                     THEN LET ac == autocorr_numba(spike_times1, window_size, bin_size)
                          IN  jloop(j + 1, [tensor |-> AddSlice(acc.tensor, i, j, ac.hist, FALSE),
                                            oob |-> acc.oob + ac.oob,
                                            slices |-> acc.slices \cup {<<i, j>>}])
                     ELSE LET cc == crosscorr_numba(spike_times1, spike_times2, window_size, bin_size)
                          IN  jloop(j + 1,
                                [tensor |-> AddSlice(AddSlice(acc.tensor, i, j, cc.hist, FALSE),
                                                     j, i, cc.hist, TRUE),
                                 oob |-> acc.oob + cc.oob,
                                 slices |-> acc.slices \cup {<<i, j>>, <<j, i>>}])
    IN  IF RangeFrom(i, n_units) = {} THEN r
        ELSE jloop(CHOOSE j \in RangeFrom(i, n_units) : \A x \in RangeFrom(i, n_units) : j <= x, r)

\* _compute_correlograms_numba for one segment, the tasks taken in index order.
compute_correlograms_numba_segment(r, spike_times, spike_labels, window_size, bin_size) ==
    LET RECURSIVE iloop(_, _)
        iloop(i, acc) == IF i >= acc.tensor.shape[1] THEN acc
                         ELSE iloop(i + 1, NumbaTask(acc, spike_times, spike_labels,
                                                     window_size, bin_size, i))
    IN  iloop(0, r)

\* The whole function when every out-of-bounds write passes unnoticed:
\* [tensor, oob], oob the number of such writes.
compute_correlograms_numba(spikes, num_units, window_size, bin_size) ==
    LET nb == compute_num_bins(window_size, bin_size)
        RECURSIVE segloop(_, _)
        segloop(seg_index, acc) ==
            IF seg_index > Len(spikes) THEN acc
            ELSE segloop(seg_index + 1,
                   compute_correlograms_numba_segment(acc, SampleIndex(SegmentOf(spikes, seg_index)),
                       UnitIndex(SegmentOf(spikes, seg_index)), window_size, bin_size))
    IN  segloop(1, [tensor |-> Zeros(<<num_units, num_units, nb.num_bins>>), oob |-> 0, slices |-> {}])

(***************************************************************************)
(* The spike-train helpers.                                                *)
(***************************************************************************)
\* _compute_correlograms_one_segment_numba called with the positional
\* arguments args.  The function has six parameters (correlograms,
\* spike_times, spike_labels, window_size, bin_size, num_half_bins), fills
\* correlograms in place and returns None.  Python binds the arguments
\* before the body runs: any other number of them is a TypeError.
compute_correlograms_one_segment_numba(args) ==
    IF Len(args) # 6 THEN [status |-> "TypeError", value |-> "None", correlograms |-> Zeros(<<0, 0, 0>>)]
    ELSE
    LET correlograms  == args[1]
        spike_times   == args[2]
        spike_labels  == args[3]
        window_size   == args[4]
        bin_size      == args[5]
        num_half_bins == args[6]
        n == Len(spike_times)
        \* the body of "for j in range(start_j, spike_times.size)" from j on;
        \* s = [start_j, tensor]
        RECURSIVE inner(_, _, _)
        inner(i, j, s) ==
            IF j > n THEN s
            ELSE LET diff == spike_times[i] - spike_times[j]
                 IN  IF i = j \/ diff = window_size THEN inner(i, j + 1, s)
                     ELSE IF diff > window_size
                          THEN inner(i, j + 1, [s EXCEPT !.start_j = @ + 1])
                     ELSE IF diff < -window_size THEN s
                     ELSE inner(i, j + 1,
                            [s EXCEPT !.tensor.data[RavelIndex(
                                <<spike_labels[i], spike_labels[j],
                                  num_half_bins + FloorDiv(diff, bin_size)>>, correlograms.shape)] = @ + 1])
        RECURSIVE outer(_, _)
        outer(i, s) == IF i > n THEN s ELSE outer(i + 1, inner(i, s.start_j, s))
    IN  [status |-> "ok", value |-> "None",
         correlograms |-> outer(1, [start_j |-> 1, tensor |-> correlograms]).tensor]

\* compute_autocorrelogram_from_spiketrain: [status, value]
compute_autocorrelogram_from_spiketrain(have_numba, spike_times, window_size, bin_size) ==
    IF ~have_numba THEN [status |-> "AssertionError", value |-> "None"]
    ELSE LET r == compute_correlograms_one_segment_numba(<<spike_times, window_size, bin_size>>)
         IN  [status |-> r.status, value |-> r.value]

(***************************************************************************)
(* The analyzer extension ComputeCorrelograms.                             *)
(***************************************************************************)
\* the id of the unit at index i of sorting.unit_ids
UnitId(i) == 100 + i

\* sorting.ids_to_indices(unit_ids): the index in sorting.unit_ids of each
\* requested id, in the order requested
ids_to_indices(ids) == [p \in 1..Len(ids) |-> CHOOSE i \in 0..(ids[p] - 100) : UnitId(i) = ids[p]]

\* r.tensor[unit_indices]: integer-array indexing of the first axis, a new
\* array; r = [status, tensor]
TakeAxis0(r, unit_indices) ==
    IF r.status # "ok" \/ \E p \in 1..Len(unit_indices) :
                            unit_indices[p] < 0 \/ unit_indices[p] >= r.tensor.shape[1]
    THEN [status |-> "IndexError", tensor |-> Zeros(<<0, 0, 0>>)]
    ELSE LET t == r.tensor
             shape == <<Len(unit_indices), t.shape[2], t.shape[3]>>
         IN  [status |-> "ok",
              tensor |-> [shape |-> shape,
                          data |-> [x \in 0..(Size(shape) - 1) |->
                              At(t, unit_indices[(x \div (shape[2] * shape[3])) + 1],
                                    (x \div shape[3]) % shape[2], x % shape[3])]]]

\* the second indexing step on the first axis again
TakeAxis0Again(r, unit_indices) == TakeAxis0(r, unit_indices)

\* r.tensor[:, unit_indices]: integer-array indexing of the second axis
TakeAxis1(r, unit_indices) ==
    IF r.status # "ok" \/ \E p \in 1..Len(unit_indices) :
                            unit_indices[p] < 0 \/ unit_indices[p] >= r.tensor.shape[2]
    THEN [status |-> "IndexError", tensor |-> Zeros(<<0, 0, 0>>)]
    ELSE LET t == r.tensor
             shape == <<t.shape[1], Len(unit_indices), t.shape[3]>>
         IN  [status |-> "ok",
              tensor |-> [shape |-> shape,
                          data |-> [x \in 0..(Size(shape) - 1) |->
                              At(t, x \div (shape[2] * shape[3]),
                                    unit_indices[((x \div shape[3]) % shape[2]) + 1], x % shape[3])]]]

\* ComputeCorrelograms._select_extension_data: [status, ccgs, bins]
select_extension_data(self_data, ids) ==
    LET unit_indices == ids_to_indices(ids)
        new_ccgs == TakeAxis1(TakeAxis0([status |-> "ok", tensor |-> self_data.ccgs], unit_indices),
                              unit_indices)
        new_bins == self_data.bins
    IN  [status |-> new_ccgs.status, ccgs |-> new_ccgs.tensor, bins |-> new_bins]

(***************************************************************************)
(* A sorting written to a zarr group and read back (zarrextractors.py).    *)
(***************************************************************************)
\* sorting.to_spike_vector(): the spikes of every segment end to end, each
\* with the index (from 0) of its segment
to_spike_vector(spike_vector) ==
    LET RECURSIVE cat(_)
        cat(s) == IF s > Len(spike_vector) THEN <<>>
                  ELSE [p \in 1..Len(spike_vector[s]) |->
                           [sample_index |-> spike_vector[s][p].sample_index,
                            unit_index |-> spike_vector[s][p].unit_index,
                            segment_index |-> s - 1]] \o cat(s + 1)
    IN  cat(1)

\* a[field] of a structured array
Field(a, field) == [p \in 1..Len(a) |-> a[p][field]]

\* np.searchsorted(a, v, side="right"): bisection with "a[mid] <= v"
searchsorted_right(a, v) ==
    LET RECURSIVE bisect(_, _)
        bisect(lo, hi) == IF lo >= hi THEN lo
                          ELSE LET mid == (lo + hi) \div 2
                               IN  IF a[mid + 1] <= v THEN bisect(mid + 1, hi) ELSE bisect(lo, mid)
    IN  bisect(0, Len(a))

\* np.searchsorted(a, v), side="left": bisection with "a[mid] < v"; the
\* index is 0-based
searchsorted(a, v) ==
    LET RECURSIVE bisect(_, _)
        bisect(lo, hi) == IF lo >= hi THEN lo
                          ELSE LET mid == (lo + hi) \div 2
                               IN  IF a[mid + 1] < v THEN bisect(mid + 1, hi) ELSE bisect(lo, mid)
    IN  bisect(0, Len(a))

\* numcodecs.Delta: encode keeps the first element and the differences,
\* decode is the running sum
DeltaEncode(a) == [p \in 1..Len(a) |-> IF p = 1 THEN a[1] ELSE a[p] - a[p - 1]]

DeltaDecode(enc) ==
    LET RECURSIVE cumsum(_, _)
        cumsum(p, acc) == IF p > Len(enc) THEN <<>>
                          ELSE <<acc + enc[p]>> \o cumsum(p + 1, acc + enc[p])
    IN  cumsum(1, 0)

\* add_sorting_to_zarr_group: the attributes and the datasets of the group
\* "spikes" it writes, each dataset as its filter stores it
add_sorting_to_zarr_group(spike_vector) ==
    LET num_segments == Len(spike_vector)
        all == to_spike_vector(spike_vector)
        segment_slices ==
            [seg \in 1..num_segments |->
                <<searchsorted(Field(all, "segment_index"), seg - 1),
                  searchsorted(Field(all, "segment_index"), seg)>>]
    IN  [status |-> "ok",
         num_segments |-> num_segments,
         sample_index |-> DeltaEncode(Field(all, "sample_index")),
         unit_index |-> DeltaEncode(Field(all, "unit_index")),
         segment_slices |-> segment_slices]

\* ZarrSortingExtractor.__init__: the spike vector built from the group
read_spikes(group) ==
    LET sample_index == DeltaDecode(group.sample_index)
        unit_index == DeltaDecode(group.unit_index)
        \* "for i, (start, end) in enumerate(segment_slices_list):
        \*      spikes["segment_index"][start:end] = i" from entry i on
        RECURSIVE assign(_, _)
        assign(i, segment_index) ==
            IF i > Len(group.segment_slices) THEN segment_index
            ELSE assign(i + 1,
                        [p \in DOMAIN segment_index |->
                            IF group.segment_slices[i][1] < p /\ p <= group.segment_slices[i][2]
                            THEN i - 1 ELSE segment_index[p]])
        segment_index == assign(1, [p \in 1..Len(sample_index) |-> 0])
    IN  [p \in 1..Len(sample_index) |->
            [sample_index |-> sample_index[p], unit_index |-> unit_index[p],
             segment_index |-> segment_index[p]]]

(***************************************************************************)
(* State.  A caller plans the bins of one sorting and then runs each       *)
(* low-level counter on it once, the vectorized one first.                 *)
(***************************************************************************)
VARIABLES
    sampling_frequency, window_ms, bin_ms,  \* arguments of _make_bins
    num_units, spikes,                      \* the sorting
    pc,                                     \* where the caller is
    plan,                                   \* what _make_bins returned or raised
    correlograms, seg_index,                \* locals of the running counter
    shift, mask, c0,                        \* locals of correlogram_for_one_segment
    pending, oob,                           \* prange tasks left; unchecked writes so far
    written,                                \* written[i]: the slices [a,b,:] task i of the prange wrote
    result,                                 \* what each counter returned or raised
    HAVE_NUMBA,                             \* module global: "import numba" succeeded
    requested,                              \* the method argument as the caller passed it
    method,                                 \* compute_correlograms_on_sorting's local
    folder_path, mode, storage_options,     \* arguments of super_zarr_open
    open_funcs, storage_options_to_test,    \* its two tuples of things to try
    func_index, option_index,               \* where its two for loops are
    root, exception,                        \* its two result locals
    zarr_pc,                                \* where super_zarr_open is
    attempts,                               \* every open attempt made so far, in order
    heap,                                   \* the buffers the running counter allocated and stored to
    data, unit_ids, new_data,               \* ComputeCorrelograms: self.data; _select_extension_data's argument and result
    zarr_group, loaded                      \* a zarr group a sorting is written to; the spike vector read back

vars == <<sampling_frequency, window_ms, bin_ms, num_units, spikes, pc, plan,
          correlograms, seg_index, shift, mask, c0, pending, written, oob, result,
          HAVE_NUMBA, requested, method,
          folder_path, mode, storage_options, open_funcs, storage_options_to_test,
          func_index, option_index, root, exception, zarr_pc, attempts, heap,
          data, unit_ids, new_data, zarr_group, loaded>>

extension == <<data, unit_ids, new_data>>

zarr_file == <<zarr_group, loaded>>

zarr_locals == <<folder_path, mode, storage_options, open_funcs, storage_options_to_test,
                 func_index, option_index, root, exception, zarr_pc, attempts>>

inputs == <<sampling_frequency, window_ms, bin_ms, num_units, spikes>>

facade == <<HAVE_NUMBA, requested, method>>

counting == <<inputs, facade, pc, plan, correlograms, seg_index, shift, mask, c0, pending, written, oob,
              result, heap>>

\* counting without pc
counting_locals == <<inputs, facade, plan, correlograms, seg_index, shift, mask, c0, pending, written, oob,
                     result, heap>>

window_size == plan.window_size

bin_size == plan.bin_size

num_bins == compute_num_bins(window_size, bin_size).num_bins

num_half_bins == compute_num_bins(window_size, bin_size).num_half_bins

NoTensor == Zeros(<<0, 0, 0>>)

NotRun == [status |-> "none", tensor |-> NoTensor]

(***************************************************************************)
(* Buffers.  The counters borrow the sorting's spike vector ("spikes") and *)
(* make arrays of their own; an array expression that is a view refers to  *)
(* the buffer of its base.  heap.allocated holds the buffers the running   *)
(* call made, heap.stored the buffers its in-place statements ("x[..] =",  *)
(* "x += ..") stored to, heap.borrowed the spike vector as it was lent.    *)
(***************************************************************************)
\* every array an alias of the spike vector
BufferOfBorrowed(array) == "spikes"

\* the buffer an array expression of the counters refers to
BufferOf(array) ==
    CASE array \in {"spike_times", "spike_labels"}
             -> "spikes"           \* spikes[seg_index]["sample_index"], [..]["unit_index"]: field views
      [] array \in {"spike_times.astype", "spike_labels.astype"}
             -> "spikes"           \* astype(copy=False) of an array of that dtype is the array
      [] array \in {"mask", "mask[:-shift]"}
             -> "mask"             \* np.ones_like(spike_times, dtype="bool"), and a slice of it
      [] array \in {"c0", "c0.ravel()"}
             -> "c0"               \* np.zeros in correlogram_for_one_segment, and its flat view
      [] array \in {"correlograms", "correlograms[i, j, :]", "correlograms[j, i, :]"}
             -> "correlograms"     \* np.zeros in the counter, and slices of it
      [] array \in {"spike_times1", "spike_times2"}
             -> array              \* spike_times[spike_labels == i]: a copy
      [] array \in {"auto_corr", "cross_corr"}
             -> array              \* np.zeros in the kernels
      [] OTHER -> array

\* no counter has been called
NoCall == [allocated |-> {}, stored |-> {}, borrowed |-> <<>>]

\* Python's None where the extension's data or a selection is expected
NoData == [status |-> "None", ccgs |-> NoTensor, bins |-> <<>>]

\* the extension has not run and nothing is selected from it
NoExtensionData ==
    /\ data = NoData
    /\ unit_ids = <<>>
    /\ new_data = NoData

\* no sorting has been written to a zarr group or read from one
NoFile == [status |-> "None"]

NoZarrFile ==
    /\ zarr_group = NoFile
    /\ loaded = NoFile

(***************************************************************************)
(* Inputs.                                                                 *)
(***************************************************************************)
\* the ways to continue a spike vector by n more spikes of units 0..U-1,
\* every sample_index in T and at least lo, ordered by sample_index
RECURSIVE SegmentsFrom(_, _, _, _)
SegmentsFrom(T, lo, n, U) ==
    IF n = 0 THEN {<<>>}
    ELSE UNION {{<<[sample_index |-> t, unit_index |-> u]>> \o rest :
                    u \in 0..(U - 1), rest \in SegmentsFrom(T, t, n - 1, U)} :
                t \in {x \in T : x >= lo}}

\* SegmentsBy[U][n]: the spike vectors of one segment with n spikes.  Both
\* counters read sample indices only through differences inside a segment,
\* so the first spike of a segment is put at sample 0.
SegmentsBy ==
    [U \in 1..MaxUnits |-> [n \in 0..MaxSpikes |->
        IF n = 0 THEN {<<>>}
        ELSE {<<[sample_index |-> 0, unit_index |-> u]>> \o rest :
                 u \in 0..(U - 1), rest \in SegmentsFrom(0..MaxTime, 0, n - 1, U)}]]

RECURSIVE SumSeq(_)
SumSeq(s) == IF s = <<>> THEN 0 ELSE Head(s) + SumSeq(Tail(s))

\* the sortings whose segments have the given numbers of spikes
RECURSIVE SortingsWith(_, _)
SortingsWith(lens, U) ==
    IF lens = <<>> THEN {<<>>}
    ELSE {<<seg>> \o rest : seg \in SegmentsBy[U][Head(lens)], rest \in SortingsWith(Tail(lens), U)}

\* the sortings of nseg segments with at most budget spikes in all
SortingsOf(nseg, budget, U) ==
    UNION {SortingsWith(lens, U) :
             lens \in {l \in [1..nseg -> 0..budget] : SumSeq(l) <= budget}}

Sortings(U) == UNION {SortingsOf(nseg, MaxSpikes, U) : nseg \in SegmentCounts}

\* Python's None where an open attempt's root or exception is expected
None == [open_func |-> "None", storage_options |-> "None", ok |-> FALSE]

\* super_zarr_open is not being called
NoZarrCall ==
    /\ folder_path = "local_dir"
    /\ mode = "r"
    /\ storage_options = "None"
    /\ open_funcs = <<>>
    /\ storage_options_to_test = <<>>
    /\ func_index = 0
    /\ option_index = 0
    /\ root = None
    /\ exception = None
    /\ zarr_pc = "none"
    /\ attempts = <<>>

InitCounters ==
    /\ plan = [status |-> "none", bins |-> <<>>, window_size |-> 0, bin_size |-> 1]
    /\ correlograms = NoTensor
    /\ seg_index = 0
    /\ shift = 0
    /\ mask = <<>>
    /\ c0 = NoTensor
    /\ pending = {}
    /\ written = <<>>
    /\ oob = 0
    /\ result = [numpy |-> NotRun, numba |-> NotRun,
                 spiketrain |-> [status |-> "none", value |-> "None", spike_times |-> <<>>]]
    /\ heap = NoCall
    /\ NoExtensionData
    /\ NoZarrFile

InitLocals ==
    /\ InitCounters
    /\ NoZarrCall

\* the counters are called one after the other by a caller that has numba,
\* not through compute_correlograms_on_sorting
CalledDirectly ==
    /\ pc = "start"
    /\ HAVE_NUMBA = TRUE
    /\ requested = "direct"
    /\ method = "direct"

\* fs = 1000 Hz, window_ms = 4: window_size = 2 with bin_size 1 (4 bins) or
\* 2 (2 bins)
Init ==
    /\ sampling_frequency = 1000
    /\ window_ms = 4
    /\ bin_ms \in {1, 2}
    /\ num_units \in 1..MaxUnits
    /\ spikes \in Sortings(num_units)
    /\ InitLocals
    /\ CalledDirectly

\* one segment only
InitOneSegment ==
    /\ sampling_frequency = 1000
    /\ window_ms = 4
    /\ bin_ms \in {1, 2}
    /\ num_units \in 1..MaxUnits
    /\ spikes \in SortingsOf(1, MaxSpikes, num_units)
    /\ InitLocals
    /\ CalledDirectly

\* two segments
InitTwoSegments ==
    /\ sampling_frequency = 1000
    /\ window_ms = 4
    /\ bin_ms \in {1, 2}
    /\ num_units \in 1..MaxUnits
    /\ spikes \in SortingsOf(2, MaxSpikes, num_units)
    /\ InitLocals
    /\ CalledDirectly

\* fs = 30 kHz, window_ms = 2, bin_ms = 1: window_size = bin_size = 30, two
\* bins; one segment whose spikes lie at the samples around one and two
\* window sizes
BoundaryTimes == {0, 29, 30, 59, 60}

InitBoundary ==
    /\ sampling_frequency = 30000
    /\ window_ms = 2
    /\ bin_ms = 1
    /\ num_units \in 1..MaxUnits
    /\ spikes \in UNION {{<<seg>> : seg \in SegmentsFrom(BoundaryTimes, 0, n, num_units)} :
                          n \in 0..MaxSpikes}
    /\ InitLocals
    /\ CalledDirectly

\* the planner's arguments vary; one unit, one segment of at most two spikes
SamplingRates == {500, 1000, 1500}

InitBins ==
    /\ sampling_frequency \in SamplingRates
    /\ window_ms \in (1..MaxWindowMs) \cup {50}
    /\ bin_ms \in (1..MaxBinMs) \cup {5}
    /\ num_units = 1
    /\ spikes \in {<<seg>> : seg \in UNION {SegmentsBy[1][n] : n \in 0..2}}
    /\ InitLocals
    /\ CalledDirectly

\* the spike-train helper is called on the train of one unit of a
\* one-segment sorting, numba installed or not
InitSpikeTrain ==
    /\ sampling_frequency = 1000
    /\ window_ms = 4
    /\ bin_ms \in {1, 2}
    /\ num_units \in 1..MaxUnits
    /\ spikes \in SortingsOf(1, MaxSpikes, num_units)
    /\ InitLocals
    /\ pc = "start"
    /\ HAVE_NUMBA \in BOOLEAN
    /\ requested = "direct"
    /\ method = "direct"

\* a call of super_zarr_open.  folder_path is known by what
\* is_path_remote(str(folder_path)) and Path(folder_path).is_dir() say of it;
\* storage_options is None, {} or a dict of options
InitZarr ==
    /\ sampling_frequency = 1000
    /\ window_ms = 4
    /\ bin_ms = 1
    /\ num_units = 1
    /\ spikes = <<<<>>>>
    /\ InitCounters
    /\ CalledDirectly
    /\ folder_path \in {"remote", "local_dir", "local_not_dir"}
    /\ mode \in {"r", "r+", "a", "w"}
    /\ storage_options \in {"None", "empty", "given"}
    /\ open_funcs = <<>>
    /\ storage_options_to_test = <<>>
    /\ func_index = 0
    /\ option_index = 0
    /\ root = None
    /\ exception = None
    /\ zarr_pc = "call"
    /\ attempts = <<>>

\* a call of compute_correlograms_on_sorting: any method string, numba
\* installed or not, geometries that plan and geometries that do not
MethodArguments == {"auto", "numba", "numpy", "other"}

InitFacade ==
    /\ sampling_frequency \in {500, 1000}
    /\ window_ms \in {1, 4}
    /\ bin_ms \in {1, 2}
    /\ num_units \in 1..MaxUnits
    /\ spikes \in SortingsOf(1, 2, num_units)
    /\ InitLocals
    /\ pc = "facade"
    /\ HAVE_NUMBA \in BOOLEAN
    /\ requested \in MethodArguments
    /\ method = requested

(***************************************************************************)
(* Actions.                                                                *)
(***************************************************************************)
\* bins, window_size, bin_size = _make_bins(sorting, window_ms, bin_ms)
MakeBins ==
    /\ pc = "start"
    /\ plan' = make_bins(sampling_frequency, window_ms, bin_ms)
    /\ pc' = IF plan'.status = "ok" THEN "idle" ELSE "raised"
    /\ UNCHANGED <<extension, zarr_file, heap, inputs, facade, zarr_locals, correlograms, seg_index, shift, mask, c0, pending, written, oob, result>>

\* compute_correlograms_numpy, up to the segment loop
CallNumpy ==
    /\ pc = "idle"
    /\ result.numpy.status = "none"
    /\ correlograms' = Zeros(<<num_units, num_units, num_bins>>)
    /\ seg_index' = 1
    /\ pc' = "numpy_for"
    /\ heap' = [allocated |-> {BufferOf("correlograms")}, stored |-> {}, borrowed |-> spikes]
    /\ UNCHANGED <<extension, zarr_file, inputs, facade, zarr_locals, plan, shift, mask, c0, pending, written, oob, result>>

\* one turn of the segment loop enters correlogram_for_one_segment
NumpySegment ==
    /\ pc = "numpy_for"
    /\ seg_index <= Len(spikes)
    /\ LET st == ShiftStart(SampleIndex(SegmentOf(spikes, seg_index)), UnitIndex(SegmentOf(spikes, seg_index)),
                            window_size, bin_size)
       IN  /\ shift' = st.shift
           /\ mask' = st.mask
           /\ c0' = st.c0
    /\ pc' = "numpy_while"
    /\ heap' = [heap EXCEPT !.allocated = @ \cup {BufferOf("c0"), BufferOf("mask")}]
    /\ UNCHANGED <<extension, zarr_file, inputs, facade, zarr_locals, plan, correlograms, seg_index, pending, written, oob, result>>

\* one iteration of "while mask[:-shift].any()"
NumpyShift ==
    /\ pc = "numpy_while"
    /\ MaskAny(mask, shift)
    /\ \E st \in {ShiftIteration([shift |-> shift, mask |-> mask, c0 |-> c0, raised |-> FALSE],
                     SampleIndex(SegmentOf(spikes, seg_index)), UnitIndex(SegmentOf(spikes, seg_index)),
                     bin_size, num_half_bins)} :
           /\ shift' = st.shift
           /\ mask' = st.mask
           /\ c0' = st.c0
           /\ pc' = IF st.raised THEN "idle" ELSE "numpy_while"
           /\ result' = IF st.raised
                        THEN [result EXCEPT !.numpy = [status |-> "ValueError", tensor |-> NoTensor]]
                        ELSE result
    \* "mask[:-shift][...] = False" and "correlograms.ravel()[: len(bbins)] += bbins"
    /\ heap' = [heap EXCEPT !.stored = @ \cup {BufferOf("mask[:-shift]"), BufferOf("c0.ravel()")}]
    /\ UNCHANGED <<extension, zarr_file, inputs, facade, zarr_locals, plan, correlograms, seg_index, pending, written, oob>>

\* the while loop ends, the function returns c0, and "correlograms += c0"
NumpyAccumulate ==
    /\ pc = "numpy_while"
    /\ ~MaskAny(mask, shift)
    /\ IF CanBroadcast(correlograms, c0)
       THEN /\ correlograms' = AddBroadcast(correlograms, c0)
            /\ seg_index' = seg_index + 1
            /\ pc' = "numpy_for"
            /\ result' = result
       ELSE /\ pc' = "idle"
            /\ result' = [result EXCEPT !.numpy = [status |-> "ValueError", tensor |-> NoTensor]]
            /\ UNCHANGED <<correlograms, seg_index>>
    /\ heap' = [heap EXCEPT !.stored = @ \cup {BufferOf("correlograms")}]
    /\ UNCHANGED <<extension, zarr_file, inputs, facade, zarr_locals, plan, shift, mask, c0, pending, written, oob>>

\* return correlograms
NumpyReturn ==
    /\ pc = "numpy_for"
    /\ seg_index > Len(spikes)
    /\ result' = [result EXCEPT !.numpy = [status |-> "ok", tensor |-> correlograms]]
    /\ pc' = "idle"
    /\ UNCHANGED <<extension, zarr_file, heap, inputs, facade, zarr_locals, plan, correlograms, seg_index, shift, mask, c0, pending, written, oob>>

\* compute_correlograms_numba, up to the segment loop: "assert HAVE_NUMBA"
\* and the allocation
EnterNumba ==
    /\ pc = "idle"
    /\ result.numba.status = "none"
    /\ IF HAVE_NUMBA
       THEN /\ correlograms' = Zeros(<<num_units, num_units, num_bins>>)
            /\ seg_index' = 1
            /\ oob' = 0
            /\ pc' = "numba_for"
            /\ result' = result
            /\ heap' = [allocated |-> {BufferOf("correlograms")}, stored |-> {}, borrowed |-> spikes]
       ELSE /\ result' = [result EXCEPT !.numba = [status |-> "AssertionError", tensor |-> NoTensor]]
            /\ UNCHANGED <<correlograms, seg_index, oob, pc, heap>>
    /\ UNCHANGED <<extension, zarr_file, inputs, facade, zarr_locals, plan, shift, mask, c0, pending, written>>

\* the caller runs the pairwise counter after the vectorized one
CallNumba ==
    /\ result.numpy.status # "none"
    /\ EnterNumba

\* one turn of the segment loop enters _compute_correlograms_numba
NumbaSegment ==
    /\ pc = "numba_for"
    /\ seg_index <= Len(spikes)
    /\ pending' = 0..(correlograms.shape[1] - 1)
    /\ written' = [i \in 0..(correlograms.shape[1] - 1) |-> {}]
    /\ pc' = "numba_prange"
    /\ UNCHANGED <<extension, zarr_file, heap, inputs, facade, zarr_locals, plan, correlograms, seg_index, shift, mask, c0, oob, result>>

\* the prange body for one i.  A write outside a histogram either passes
\* unnoticed or ends the call (memory fault, or IndexError under
\* NUMBA_BOUNDSCHECK).
NumbaPrangeTask(i) ==
    /\ pc = "numba_prange"
    /\ i \in pending
    /\ \E r \in {NumbaTask([tensor |-> correlograms, oob |-> oob, slices |-> {}],
                            SampleIndex(SegmentOf(spikes, seg_index)), UnitIndex(SegmentOf(spikes, seg_index)),
                            window_size, bin_size, i)} :
        \* the arrays the task makes, and the ones its kernels and its
        \* "correlograms[i, j, :] +=" statements store to
        \E cross \in {IF r.slices \ {<<i, i>>} # {} THEN {"spike_times2", "cross_corr"} ELSE {}} :
            LET auto  == IF <<i, i>> \in r.slices THEN {"auto_corr"} ELSE {}
                made  == {BufferOf(a) : a \in {"spike_times1"} \cup auto \cup cross}
                sliced == {BufferOf(a) : a \in IF cross # {}
                                               THEN {"correlograms[i, j, :]", "correlograms[j, i, :]"}
                                               ELSE {"correlograms[i, j, :]"}}
                kernels == {BufferOf(a) : a \in (auto \cup cross) \ {"spike_times2"}}
                beyond == IF r.oob > oob THEN {"past the end of auto_corr"} ELSE {}
            IN  /\ heap' = [heap EXCEPT !.allocated = @ \cup made,
                                        !.stored = @ \cup kernels \cup sliced \cup beyond]
                /\ \E fatal \in IF r.oob > oob THEN BOOLEAN ELSE {FALSE} :
                      IF fatal
                      THEN /\ pc' = "idle"
                           /\ result' = [result EXCEPT !.numba = [status |-> "crash", tensor |-> NoTensor]]
                           /\ pending' = {}
                           /\ UNCHANGED <<correlograms, oob, written>>
                      ELSE /\ correlograms' = r.tensor
                           /\ oob' = r.oob
                           /\ pending' = pending \ {i}
                           /\ written' = [written EXCEPT ![i] = r.slices]
                           /\ UNCHANGED <<pc, result>>
    /\ UNCHANGED <<extension, zarr_file, inputs, facade, zarr_locals, plan, seg_index, shift, mask, c0>>

\* every task of the prange is done
NumbaJoin ==
    /\ pc = "numba_prange"
    /\ pending = {}
    /\ seg_index' = seg_index + 1
    /\ pc' = "numba_for"
    /\ UNCHANGED <<extension, zarr_file, heap, inputs, facade, zarr_locals, plan, correlograms, shift, mask, c0, pending, written, oob, result>>

\* return correlograms
NumbaReturn ==
    /\ pc = "numba_for"
    /\ seg_index > Len(spikes)
    /\ result' = [result EXCEPT !.numba = [status |-> "ok", tensor |-> correlograms]]
    /\ pc' = "idle"
    /\ UNCHANGED <<extension, zarr_file, heap, inputs, facade, zarr_locals, plan, correlograms, seg_index, shift, mask, c0, pending, written, oob>>

\* compute_correlograms_on_sorting: the method assertion and the "auto" choice
CheckMethod ==
    /\ pc = "facade"
    /\ IF method \notin {"auto", "numba", "numpy"}
       THEN /\ pc' = "raised"
            /\ method' = method
       ELSE /\ pc' = "start"
            /\ method' = IF method = "auto"
                         THEN (IF HAVE_NUMBA THEN "numba" ELSE "numpy")
                         ELSE method
    /\ UNCHANGED <<extension, zarr_file, heap, inputs, HAVE_NUMBA, requested, zarr_locals, plan, correlograms, seg_index, shift, mask,
                   c0, pending, written, oob, result>>

\* the vectorized counter entered whatever the method
DispatchNumpyAnyMethod == CallNumpy

\* if method == "numpy": correlograms = compute_correlograms_numpy(...)
DispatchNumpy ==
    /\ method = "numpy"
    /\ CallNumpy

\* if method == "numba": correlograms = compute_correlograms_numba(...)
DispatchNumba ==
    /\ method = "numba"
    /\ EnterNumba

\* the counter is back: "return correlograms, bins", or its exception
\* leaves compute_correlograms_on_sorting
FacadeReturn ==
    /\ pc = "idle"
    /\ method \in {"numpy", "numba"}
    /\ result[method].status # "none"
    /\ pc' = IF result[method].status = "ok" THEN "returned" ELSE "raised"
    /\ UNCHANGED <<extension, zarr_file, heap, inputs, facade, zarr_locals, plan, correlograms, seg_index, shift, mask, c0, pending, written,
                   oob, result>>

Next ==
    \/ MakeBins
    \/ CallNumpy
    \/ NumpySegment
    \/ NumpyShift
    \/ NumpyAccumulate
    \/ NumpyReturn
    \/ CallNumba
    \/ NumbaSegment
    \/ \E i \in 0..(MaxUnits - 1) : NumbaPrangeTask(i)
    \/ NumbaJoin
    \/ NumbaReturn

Spec == Init /\ [][Next]_vars

SpecOneSegment == InitOneSegment /\ [][Next]_vars

SpecTwoSegments == InitTwoSegments /\ [][Next]_vars

SpecBoundary == InitBoundary /\ [][Next]_vars

SpecBins == InitBins /\ [][Next]_vars

\* the vectorized counter alone
NextNumpy ==
    \/ MakeBins
    \/ CallNumpy
    \/ NumpySegment
    \/ NumpyShift
    \/ NumpyAccumulate
    \/ NumpyReturn

\* the shift loop reads unit labels only to place its counts: one segment
\* of one or two units
ShiftLoopUnits == 2

InitShiftLoop ==
    /\ sampling_frequency = 1000
    /\ window_ms = 4
    /\ bin_ms \in {1, 2}
    /\ num_units \in 1..ShiftLoopUnits
    /\ spikes \in SortingsOf(1, MaxSpikes, num_units)
    /\ InitLocals
    /\ CalledDirectly

\* one segment, and the shift loop always takes its next step
SpecShiftLoop == InitShiftLoop /\ [][NextNumpy]_vars /\ WF_vars(NumpyShift \/ NumpyAccumulate)

\* compute_autocorrelogram_from_spiketrain(train of unit u, window_size, bin_size)
AutocorrelogramFromSpiketrain(u) ==
    /\ pc = "idle"
    /\ u < num_units
    /\ result.spiketrain.status = "none"
    /\ LET spike_times == TrainOf(SampleIndex(SegmentOf(spikes, 1)), UnitIndex(SegmentOf(spikes, 1)), u)
           r == compute_autocorrelogram_from_spiketrain(HAVE_NUMBA, spike_times, window_size, bin_size)
       IN  result' = [result EXCEPT !.spiketrain =
                        [status |-> r.status, value |-> r.value, spike_times |-> spike_times]]
    /\ UNCHANGED <<extension, zarr_file, heap, inputs, facade, zarr_locals, pc, plan, correlograms, seg_index, shift, mask, c0, pending, written, oob>>

NextSpikeTrain ==
    \/ MakeBins
    \/ \E u \in 0..(MaxUnits - 1) : AutocorrelogramFromSpiketrain(u)

SpecSpikeTrain == InitSpikeTrain /\ [][NextSpikeTrain]_vars

\* both openers whatever the mode
OpenFuncsAnyMode(open_mode) == <<"open_consolidated", "open">>

\* the tuple open_funcs for a mode
OpenFuncs(open_mode) ==
    IF open_mode \in {"a", "r+"} THEN <<"open">> ELSE <<"open_consolidated", "open">>

\* super_zarr_open up to its loops: the two tuples, root = None,
\* exception = None, the remote test and the is_dir test
ZarrPrepare ==
    /\ zarr_pc = "call"
    /\ open_funcs' = OpenFuncs(mode)
    /\ storage_options_to_test' = IF storage_options \in {"None", "empty"}
                                  THEN <<"anon_true", "anon_false">>
                                  ELSE <<storage_options>>
    /\ root' = None
    /\ exception' = None
    /\ func_index' = 1
    /\ zarr_pc' = IF folder_path = "remote" THEN "remote_open_funcs"
                  ELSE IF folder_path = "local_not_dir" THEN "raised"
                  ELSE "local_open_funcs"
    /\ UNCHANGED <<extension, zarr_file, counting, folder_path, mode, storage_options, option_index, attempts>>

\* the remote outer loop without its "if root is not None: break"
RemoteNextOpenFuncNoBreak ==
    /\ zarr_pc = "remote_open_funcs"
    /\ IF func_index > Len(open_funcs)
       THEN /\ zarr_pc' = "after_loops"
            /\ UNCHANGED option_index
       ELSE /\ zarr_pc' = "remote_options"
            /\ option_index' = 1
    /\ UNCHANGED <<extension, zarr_file, counting, folder_path, mode, storage_options, open_funcs,
                   storage_options_to_test, func_index, root, exception, attempts>>

\* the head of "for open_func in open_funcs" for a remote path, with its
\* "if root is not None: break"
RemoteNextOpenFunc ==
    /\ zarr_pc = "remote_open_funcs"
    /\ IF func_index > Len(open_funcs) \/ root # None
       THEN /\ zarr_pc' = "after_loops"
            /\ UNCHANGED option_index
       ELSE /\ zarr_pc' = "remote_options"
            /\ option_index' = 1
    /\ UNCHANGED <<extension, zarr_file, counting, folder_path, mode, storage_options, open_funcs,
                   storage_options_to_test, func_index, root, exception, attempts>>

\* one turn of "for storage_options in storage_options_to_test": the loop
\* variable rebinds storage_options, the open is tried; it returns a root
\* (break) or raises an Exception (kept in exception)
RemoteAttempt ==
    /\ zarr_pc = "remote_options"
    /\ option_index <= Len(storage_options_to_test)
    /\ storage_options' = storage_options_to_test[option_index]
    /\ \E ok \in BOOLEAN :
          LET attempt == [open_func |-> open_funcs[func_index],
                          storage_options |-> storage_options', ok |-> ok]
          IN  /\ attempts' = Append(attempts, attempt)
              /\ IF ok
                 THEN /\ root' = attempt
                      /\ func_index' = func_index + 1
                      /\ zarr_pc' = "remote_open_funcs"
                      /\ UNCHANGED <<exception, option_index>>
                 ELSE /\ exception' = attempt
                      /\ option_index' = option_index + 1
                      /\ UNCHANGED <<root, func_index, zarr_pc>>
    /\ UNCHANGED <<extension, zarr_file, counting, folder_path, mode, open_funcs, storage_options_to_test>>

\* the inner loop ran out of storage options
RemoteOptionsDone ==
    /\ zarr_pc = "remote_options"
    /\ option_index > Len(storage_options_to_test)
    /\ func_index' = func_index + 1
    /\ zarr_pc' = "remote_open_funcs"
    /\ UNCHANGED <<extension, zarr_file, counting, folder_path, mode, storage_options, open_funcs,
                   storage_options_to_test, option_index, root, exception, attempts>>

\* one turn of "for open_func in open_funcs" for a local directory
LocalAttempt ==
    /\ zarr_pc = "local_open_funcs"
    /\ func_index <= Len(open_funcs)
    /\ \E ok \in BOOLEAN :
          LET attempt == [open_func |-> open_funcs[func_index],
                          storage_options |-> storage_options, ok |-> ok]
          IN  /\ attempts' = Append(attempts, attempt)
              /\ IF ok
                 THEN /\ root' = attempt
                      /\ zarr_pc' = "after_loops"
                      /\ UNCHANGED <<exception, func_index>>
                 ELSE /\ exception' = attempt
                      /\ func_index' = func_index + 1
                      /\ UNCHANGED <<root, zarr_pc>>
    /\ UNCHANGED <<extension, zarr_file, counting, folder_path, mode, storage_options, open_funcs,
                   storage_options_to_test, option_index>>

\* the local loop ran out of open functions
LocalOpenFuncsDone ==
    /\ zarr_pc = "local_open_funcs"
    /\ func_index > Len(open_funcs)
    /\ zarr_pc' = "after_loops"
    /\ UNCHANGED <<extension, zarr_file, counting, folder_path, mode, storage_options, open_funcs,
                   storage_options_to_test, func_index, option_index, root, exception, attempts>>

\* if root is None: raise ValueError(...); return root
ZarrFinish ==
    /\ zarr_pc = "after_loops"
    /\ zarr_pc' = IF root = None THEN "raised" ELSE "returned"
    /\ UNCHANGED <<extension, zarr_file, counting, folder_path, mode, storage_options, open_funcs,
                   storage_options_to_test, func_index, option_index, root, exception, attempts>>

NextZarr ==
    \/ ZarrPrepare
    \/ RemoteNextOpenFunc
    \/ RemoteAttempt
    \/ RemoteOptionsDone
    \/ LocalAttempt
    \/ LocalOpenFuncsDone
    \/ ZarrFinish

SpecZarr == InitZarr /\ [][NextZarr]_vars

NextFacade ==
    \/ CheckMethod
    \/ MakeBins
    \/ DispatchNumpy
    \/ NumpySegment
    \/ NumpyShift
    \/ NumpyAccumulate
    \/ NumpyReturn
    \/ DispatchNumba
    \/ NumbaSegment
    \/ \E i \in 0..(MaxUnits - 1) : NumbaPrangeTask(i)
    \/ NumbaJoin
    \/ NumbaReturn
    \/ FacadeReturn

SpecFacade == InitFacade /\ [][NextFacade]_vars

\* the extension runs on a one-segment sorting with either counter
InitExtension ==
    /\ sampling_frequency = 1000
    /\ window_ms = 4
    /\ bin_ms \in {1, 2}
    /\ num_units \in 1..MaxUnits
    /\ spikes \in SortingsOf(1, 2, num_units)
    /\ InitLocals
    /\ pc = "facade"
    /\ HAVE_NUMBA = TRUE
    /\ requested \in {"numpy", "numba"}
    /\ method = requested

\* ComputeCorrelograms._run once compute_correlograms_on_sorting has
\* returned: self.data["ccgs"] = ccgs; self.data["bins"] = bins
RunStore ==
    /\ pc = "returned"
    /\ data' = [status |-> "ok", ccgs |-> correlograms, bins |-> plan.bins]
    /\ pc' = "ran"
    /\ UNCHANGED <<zarr_file, counting_locals, zarr_locals, unit_ids, new_data>>

\* the unit id sequences of at most n ids of the sorting, repeats allowed
RECURSIVE UnitIdSequences(_)
UnitIdSequences(n) ==
    IF n = 0 THEN {<<>>}
    ELSE UnitIdSequences(n - 1)
            \cup {Append(ids, UnitId(i)) : ids \in UnitIdSequences(n - 1), i \in 0..(num_units - 1)}

\* new_data = self._select_extension_data(unit_ids)
SelectExtensionData ==
    /\ pc = "ran"
    /\ \E ids \in UnitIdSequences(MaxUnits) :
          /\ unit_ids' = ids
          /\ new_data' = select_extension_data(data, ids)
    /\ pc' = "selected"
    /\ UNCHANGED <<zarr_file, counting_locals, zarr_locals, data>>

NextExtension ==
    \/ NextFacade
    \/ RunStore
    \/ SelectExtensionData

SpecExtension == InitExtension /\ [][NextExtension]_vars

\* a sorting of one, two or three segments, empty segments included
InitZarrSorting ==
    /\ sampling_frequency = 1000
    /\ window_ms = 4
    /\ bin_ms = 1
    /\ num_units \in 1..MaxUnits
    /\ spikes \in Sortings(num_units) \cup SortingsOf(3, 2, num_units)
    /\ InitLocals
    /\ CalledDirectly

\* ZarrSortingExtractor.write_sorting: add_sorting_to_zarr_group(sorting, zarr_root)
WriteSorting ==
    /\ zarr_group = NoFile
    /\ zarr_group' = add_sorting_to_zarr_group(spikes)
    /\ UNCHANGED <<extension, counting, zarr_locals, loaded>>

\* ZarrSortingExtractor.__init__ on the group written
ReadSorting ==
    /\ zarr_group # NoFile
    /\ loaded = NoFile
    /\ loaded' = [status |-> "ok", num_segments |-> zarr_group.num_segments,
                  spikes |-> read_spikes(zarr_group)]
    /\ UNCHANGED <<extension, counting, zarr_locals, zarr_group>>

NextZarrSorting ==
    \/ WriteSorting
    \/ ReadSorting

SpecZarrSorting == InitZarrSorting /\ [][NextZarrSorting]_vars

(***************************************************************************)
(* What the claims are measured against: the pairs of distinct spikes of   *)
(* one segment, counted straight from the sorting.                         *)
(***************************************************************************)
Methods == {"numpy", "numba"}

Returned(m) == result[m].status = "ok"

Units == 0..(num_units - 1)

Bins == 0..(num_bins - 1)

\* the number of ordered pairs (a, b) of distinct spikes of one segment,
\* a of unit A and b of unit B, whose lag satisfies InBin
PairsOfSegment(seg, A, B, InBin(_)) ==
    Cardinality({pq \in (1..Len(seg)) \X (1..Len(seg)) :
        /\ pq[1] # pq[2]
        /\ seg[pq[1]].unit_index = A
        /\ seg[pq[2]].unit_index = B
        /\ InBin(seg[pq[1]].sample_index - seg[pq[2]].sample_index)})

PairsOfSorting(A, B, InBin(_)) ==
    LET RECURSIVE sum(_)
        sum(s) == IF s > Len(spikes) THEN 0
                  ELSE PairsOfSegment(spikes[s], A, B, InBin) + sum(s + 1)
    IN  sum(1)

\* the sum of all entries of a tensor
TensorSum(t) ==
    LET RECURSIVE sum(_)
        sum(x) == IF x >= Size(t.shape) THEN 0 ELSE t.data[x] + sum(x + 1)
    IN  sum(0)

\* lag d lies strictly inside bin k / in bin k or on one of its two edges
InsideBin(d, k) == k * bin_size - window_size < d /\ d < (k + 1) * bin_size - window_size

OnBin(d, k) == k * bin_size - window_size <= d /\ d <= (k + 1) * bin_size - window_size

\* every unit has a spike in every segment
EveryUnitInEverySegment ==
    \A s \in 1..Len(spikes) : \A u \in Units : \E p \in 1..Len(spikes[s]) : spikes[s][p].unit_index = u

\* C1: the tensor compute_correlograms_numpy returns equals the tensor
\* compute_correlograms_numba returns in every entry.  Stated for the inputs
\* where every unit fires in every segment and the pairwise kernels made no
\* write outside a histogram, which the claim covers.
C1_StrategiesAgree ==
    (Returned("numpy") /\ Returned("numba") /\ oob = 0 /\ EveryUnitInEverySegment)
        => result.numpy.tensor = result.numba.tensor

\* C2: mirror symmetry: the tensor either strategy returns satisfies
\* tensor[A,B,k] = tensor[B,A,num_bins-1-k] for all units A, B and bins k.
C2_MirrorSymmetry ==
    \A m \in Methods : Returned(m) =>
        \A A \in Units, B \in Units, k \in Bins :
            At(result[m].tensor, A, B, k) = At(result[m].tensor, B, A, num_bins - 1 - k)

\* C3: conservation: the entries of the tensor either strategy returns sum
\* to the number of ordered pairs of distinct spikes of one segment whose
\* time difference lies in (-window_size, window_size].
C3_Conservation ==
    \A m \in Methods : Returned(m) =>
        TensorSum(result[m].tensor) =
            LET RECURSIVE sum(_)
                sum(s) == IF s > Len(spikes) THEN 0
                          ELSE Cardinality({pq \in (1..Len(spikes[s])) \X (1..Len(spikes[s])) :
                                   /\ pq[1] # pq[2]
                                   /\ LET d == spikes[s][pq[1]].sample_index
                                               - spikes[s][pq[2]].sample_index
                                      IN  -window_size < d /\ d <= window_size})
                               + sum(s + 1)
            IN  sum(1)

\* C5: orientation as the code documents it: each pair of distinct spikes
\* (a of unit A, b of unit B) of one segment with lag d = t_a - t_b inside
\* the window adds exactly one count to
\* tensor[A, B, num_half_bins + floor(d / bin_size)], under either strategy;
\* so entry [A,B,k] holds at least the pairs with -window_size < d <
\* window_size and floor(d / bin_size) = k - num_half_bins, and at most those
\* with -window_size <= d < window_size.  Stated for the inputs where every
\* unit fires in every segment, which the claim covers.
C5_OrientationFloor ==
    \A m \in Methods : (Returned(m) /\ EveryUnitInEverySegment) =>
        \A A \in Units, B \in Units, k \in Bins :
            LET strict(d) == /\ -window_size < d /\ d < window_size
                             /\ FloorDiv(d, bin_size) = k - num_half_bins
                wide(d)   == /\ -window_size <= d /\ d < window_size
                             /\ FloorDiv(d, bin_size) = k - num_half_bins
            IN  /\ PairsOfSorting(A, B, strict) <= At(result[m].tensor, A, B, k)
                /\ At(result[m].tensor, A, B, k) <= PairsOfSorting(A, B, wide)

\* C6 as the spec words it: entry [A,B,k] is the number of pairs (e_a of
\* unit A, e_b of unit B) whose difference e_b.time - e_a.time falls in bin
\* k: at least the pairs whose difference lies strictly inside bin k, at
\* most those whose difference lies in bin k or on one of its edges.  Stated
\* for the inputs where every unit fires in every segment, which the claim
\* covers.
C6_OrientationBMinusA ==
    \A m \in Methods : (Returned(m) /\ EveryUnitInEverySegment) =>
        \A A \in Units, B \in Units, k \in Bins :
            LET inside(d) == InsideBin(-d, k)
                on(d)     == OnBin(-d, k)
            IN  /\ PairsOfSorting(A, B, inside) <= At(result[m].tensor, A, B, k)
                /\ At(result[m].tensor, A, B, k) <= PairsOfSorting(A, B, on)

\* correlogram_for_one_segment is about to return c0
SegmentCounted == pc = "numpy_while" /\ ~MaskAny(mask, shift)

\* C6 amended: entry [A,B,k] counts pairs by e_a.time - e_b.time.  In the
\* tensor correlogram_for_one_segment returns for a segment and in the
\* tensor compute_correlograms_numba returns, entry [A,B,k] holds at least
\* the pairs (e_a of A, e_b of B) whose difference e_a.time - e_b.time lies
\* strictly inside bin k and at most those whose difference lies in bin k or
\* on one of its edges.
C6_OrientationAMinusB ==
    /\ SegmentCounted =>
         \A A \in 0..(c0.shape[1] - 1), B \in 0..(c0.shape[2] - 1), k \in Bins :
            LET inside(d) == InsideBin(d, k)
                on(d)     == OnBin(d, k)
            IN  /\ PairsOfSegment(spikes[seg_index], A, B, inside) <= At(c0, A, B, k)
                /\ At(c0, A, B, k) <= PairsOfSegment(spikes[seg_index], A, B, on)
    /\ Returned("numba") =>
         \A A \in Units, B \in Units, k \in Bins :
            LET inside(d) == InsideBin(d, k)
                on(d)     == OnBin(d, k)
            IN  /\ PairsOfSorting(A, B, inside) <= At(result.numba.tensor, A, B, k)
                /\ At(result.numba.tensor, A, B, k) <= PairsOfSorting(A, B, on)

\* C6 witness: both counters have counted a pair of two different units
\* whose lag lies strictly inside a bin, in the cell of one orientation only.
C6_Witness ==
    /\ Returned("numpy")
    /\ Returned("numba")
    /\ \E A \in Units, B \in Units, k \in Bins :
          LET inside(d) == InsideBin(d, k)
          IN  /\ A # B
              /\ PairsOfSorting(A, B, inside) = 1
              /\ At(result.numpy.tensor, A, B, k) = 1
              /\ At(result.numba.tensor, A, B, k) = 1
              /\ At(result.numpy.tensor, B, A, k) = 0
              /\ At(result.numba.tensor, B, A, k) = 0

\* the element-wise sum of two tensors of one shape
TensorAdd(t1, t2) == [t1 EXCEPT !.data = [x \in DOMAIN t1.data |-> t1.data[x] + t2.data[x]]]

\* C7: segment isolation: the tensor either strategy returns for the sorting
\* is the element-wise sum of the tensors it returns for the one-segment
\* sortings made of each segment alone.
C7_SegmentIsolation ==
    /\ Returned("numpy") =>
         LET RECURSIVE sum(_)
             sum(s) ==
                 IF s > Len(spikes)
                 THEN [status |-> "ok", tensor |-> Zeros(<<num_units, num_units, num_bins>>)]
                 ELSE LET one == compute_correlograms_numpy(<<spikes[s]>>, num_units,
                                                            window_size, bin_size)
                          rest == sum(s + 1)
                      IN  IF one.status = "ok" /\ rest.status = "ok"
                          THEN [status |-> "ok", tensor |-> TensorAdd(one.tensor, rest.tensor)]
                          ELSE [status |-> "ValueError", tensor |-> NoTensor]
         IN  sum(1) = [status |-> "ok", tensor |-> result.numpy.tensor]
    /\ Returned("numba") =>
         LET RECURSIVE sum(_)
             sum(s) ==
                 IF s > Len(spikes) THEN Zeros(<<num_units, num_units, num_bins>>)
                 ELSE TensorAdd(compute_correlograms_numba(<<spikes[s]>>, num_units,
                                                           window_size, bin_size).tensor,
                                sum(s + 1))
         IN  sum(1) = result.numba.tensor

\* C7 witness: two segments with spikes, close enough in sample index to be
\* counted together if they shared a segment, and both strategies returned.
C7_Witness ==
    /\ Len(spikes) = 2
    /\ Len(spikes[1]) >= 2
    /\ Len(spikes[2]) >= 1
    /\ Returned("numpy")
    /\ Returned("numba")
    /\ TensorSum(result.numpy.tensor) > 0
    /\ TensorSum(result.numba.tensor) > 0

\* C8: every call of either counter returns a tensor of shape
\* (num_units, num_units, num_bins) with no negative entry, also when some
\* unit has no spike in a segment.  Stated for the sortings with a spike in
\* every segment; a call ended by a write outside a histogram is left
\* aside.
C8_ShapeAndSign ==
    \A m \in Methods :
      (result[m].status \notin {"none", "crash"} /\ \A s \in 1..Len(spikes) : spikes[s] # <<>>) =>
        /\ Returned(m)
        /\ result[m].tensor.shape = <<num_units, num_units, num_bins>>
        /\ \A x \in DOMAIN result[m].tensor.data : result[m].tensor.data[x] >= 0

\* C9: when every segment is empty, every call of either counter returns the
\* all-zero tensor of shape (num_units, num_units, num_bins).
C9_EmptyInput ==
    (\A s \in 1..Len(spikes) : spikes[s] = <<>>) =>
        \A m \in Methods : result[m].status # "none" =>
            /\ Returned(m)
            /\ result[m].tensor = Zeros(<<num_units, num_units, num_bins>>)

\* no two spikes of one unit and one segment share a sample
NoRepeatedSample ==
    \A s \in 1..Len(spikes) : \A p \in 1..Len(spikes[s]), q \in 1..Len(spikes[s]) :
        (p # q /\ spikes[s][p].unit_index = spikes[s][q].unit_index)
            => spikes[s][p].sample_index # spikes[s][q].sample_index

\* C4: boundary exactness with window_size = bin_size = 30: in the
\* autocorrelogram of a unit either strategy returns, two spikes exactly 30
\* samples apart add nothing and two spikes less than 30 samples apart add
\* one count to each of the two bins.  Stated for the inputs where every
\* unit fires and no unit fires twice at one sample.
C4_BoundaryExact ==
    \A m \in Methods :
        (Returned(m) /\ window_size = 30 /\ bin_size = 30
            /\ EveryUnitInEverySegment /\ NoRepeatedSample) =>
        \A u \in Units :
            LET closer(d) == 0 < d /\ d < 30
            IN  /\ At(result[m].tensor, u, u, 0) = PairsOfSorting(u, u, closer)
                /\ At(result[m].tensor, u, u, 1) = PairsOfSorting(u, u, closer)

\* n is the integer nearest to num/den, the even one of the two on a tie
NearestTiesToEven(n, num, den) ==
    LET twice == 2 * (n * den - num)
        dist  == IF twice < 0 THEN -twice ELSE twice
    IN  dist <= den /\ (dist = den => n % 2 = 0)

NumpyCalled == pc \in {"numpy_for", "numpy_while"} \/ result.numpy.status # "none"

NumbaCalled == pc \in {"numba_for", "numba_prange"} \/ result.numba.status # "none"

\* C11: invalid geometry: whenever bin_size rounds to 0 or the rounded
\* half-window is smaller than one bin (num_bins < 1), _make_bins fails with
\* the num_bins assertion, and compute_correlograms_on_sorting runs no
\* counter and returns no tensor.
C11_InvalidGeometry ==
    LET half == PyRound(sampling_frequency * window_ms, 2000)
        bin  == PyRound(sampling_frequency * bin_ms, 1000)
    IN  (plan.status # "none" /\ (bin = 0 \/ half < bin)) =>
            /\ plan.status = "AssertionError"
            /\ pc = "raised"
            /\ ~NumpyCalled
            /\ ~NumbaCalled
            /\ correlograms = NoTensor

\* C12: strategy unavailable: when method "numba" is requested and numba is
\* not installed, the call does not fail: once the bins are planned it runs
\* the vectorized counter and returns its tensor.  Stated for the sortings
\* where every unit fires in the segment.
C12_FallsBackToNumpy ==
    (requested = "numba" /\ ~HAVE_NUMBA /\ plan.status = "ok" /\ EveryUnitInEverySegment) =>
        /\ pc # "raised"
        /\ result.numba.status # "AssertionError"
        /\ pc = "returned" =>
              /\ result.numpy.status = "ok"
              /\ correlograms = result.numpy.tensor

\* C13: strategy dispatch: a call of compute_correlograms_on_sorting never
\* enters both counters; it enters the vectorized counter only for "numpy",
\* or "auto" without numba, and the pairwise counter only for "numba", or
\* "auto" with numba; once the bins are planned and the call is over exactly
\* that counter was entered; and any other method value ends the call
\* before the bins are planned and before any counter is entered.
C13_Dispatch ==
    /\ ~(NumpyCalled /\ NumbaCalled)
    /\ NumpyCalled => (requested = "numpy" \/ (requested = "auto" /\ ~HAVE_NUMBA))
    /\ NumbaCalled => (requested = "numba" \/ (requested = "auto" /\ HAVE_NUMBA))
    /\ (plan.status = "ok" /\ pc \in {"returned", "raised"}) =>
          /\ (requested = "numpy" \/ (requested = "auto" /\ ~HAVE_NUMBA)) => NumpyCalled
          /\ (requested = "numba" \/ (requested = "auto" /\ HAVE_NUMBA)) => NumbaCalled
    /\ pc = "returned" =>
          /\ \E m \in Methods : Returned(m) /\ correlograms = result[m].tensor
    /\ requested \notin {"auto", "numba", "numpy"} =>
          /\ pc \in {"facade", "raised"}
          /\ plan.status = "none"
          /\ ~NumpyCalled
          /\ ~NumbaCalled

\* C13 witness: "auto" without numba has returned the vectorized counter's
\* tensor, which holds counts.
C13_Witness ==
    /\ requested = "auto"
    /\ ~HAVE_NUMBA
    /\ pc = "returned"
    /\ Returned("numpy")
    /\ ~NumbaCalled
    /\ TensorSum(result.numpy.tensor) > 0

\* C14: with numba installed, compute_autocorrelogram_from_spiketrain does
\* not raise and returns the auto-correlogram of the train: num_bins counts,
\* count k at least the ordered pairs of distinct spikes whose lag lies
\* strictly inside bin k and at most those whose lag lies in bin k or on one
\* of its edges.
C14_AutocorrelogramReturned ==
    (HAVE_NUMBA /\ result.spiketrain.status # "none") =>
        /\ result.spiketrain.status = "ok"
        /\ result.spiketrain.value # "None"
        /\ DOMAIN result.spiketrain.value = Bins
        /\ \A k \in Bins :
              LET train == [p \in 1..Len(result.spiketrain.spike_times) |->
                              [sample_index |-> result.spiketrain.spike_times[p], unit_index |-> 0]]
                  inside(d) == InsideBin(d, k)
                  on(d)     == OnBin(d, k)
              IN  /\ PairsOfSegment(train, 0, 0, inside) <= result.spiketrain.value[k]
                  /\ result.spiketrain.value[k] <= PairsOfSegment(train, 0, 0, on)

\* C15: super_zarr_open raises ValueError exactly when no attempted open
\* succeeded, and at once, with no attempt made, when a local folder_path is
\* not a directory; otherwise it returns the root of the first attempt that
\* succeeded, and no attempt is ever made after one that succeeded.
C15_ZarrOpen ==
    /\ \A k \in 1..(Len(attempts) - 1) : ~attempts[k].ok
    /\ zarr_pc = "raised" => \A k \in 1..Len(attempts) : ~attempts[k].ok
    /\ zarr_pc = "returned" =>
          /\ attempts # <<>>
          /\ attempts[Len(attempts)].ok
          /\ root = attempts[Len(attempts)]
    /\ (zarr_pc = "after_loops" /\ \A k \in 1..Len(attempts) : ~attempts[k].ok) => root = None
    /\ folder_path = "local_not_dir" =>
          /\ zarr_pc \in {"call", "raised"}
          /\ attempts = <<>>

\* C15 witness: for a remote path the third attempt, the first of zarr.open,
\* succeeded after both attempts of zarr.open_consolidated failed, and its
\* root was returned.
C15_Witness ==
    /\ folder_path = "remote"
    /\ zarr_pc = "returned"
    /\ Len(attempts) = 3
    /\ root = [open_func |-> "open", storage_options |-> "anon_true", ok |-> TRUE]

\* C16: parallel write disjointness: in the prange over i, task i adds only
\* to slices [i,j,:] and [j,i,:] with j >= i, and the slices two different
\* tasks add to are disjoint, in whatever order the tasks run.
C16_DisjointWrites ==
    /\ \A i \in DOMAIN written : \A ab \in written[i] :
          \E j \in i..(num_units - 1) : ab = <<i, j>> \/ ab = <<j, i>>
    /\ \A i \in DOMAIN written, i2 \in DOMAIN written :
          i # i2 => written[i] \cap written[i2] = {}

\* C16 witness: every task of a prange over at least two units has run, the
\* first one having added to a slice and to its mirror.
C16_Witness ==
    /\ pc = "numba_prange"
    /\ pending = {}
    /\ num_units >= 2
    /\ {<<0, 0>>, <<0, 1>>, <<1, 0>>} \subseteq written[0]
    /\ <<1, 1>> \in written[1]
    /\ TensorSum(correlograms) > 0

\* the number of events of the segment the vectorized counter is working on
NumEvents == Len(spikes[seg_index])

\* the mask only ever changes from true to false while the loop runs
MaskOnlyCleared ==
    [][(pc = "numpy_while" /\ pc' = "numpy_while") =>
          \A p \in DOMAIN mask : mask'[p] => mask[p]]_vars

\* the shift loop is always left
ShiftLoopLeft == (pc = "numpy_while") ~> (pc # "numpy_while")

\* C17 as worded: the shift loop terminates after at most N-1 iterations for
\* every N, N = 0 included, and the mask only changes from true to false.
C17_AtMostNMinusOne ==
    /\ [](pc = "numpy_while" => shift - 1 <= NumEvents - 1)
    /\ MaskOnlyCleared
    /\ ShiftLoopLeft

\* C17 amended: the shift loop terminates after at most N-1 iterations when
\* N >= 1 and after none when N = 0, and the mask only changes from true to
\* false.
C17_ShiftLoopTerminates ==
    /\ [](pc = "numpy_while" =>
            shift - 1 <= (IF NumEvents >= 1 THEN NumEvents - 1 ELSE 0))
    /\ MaskOnlyCleared
    /\ ShiftLoopLeft

\* C17 witness: the loop has made N-1 iterations over N >= 3 events and
\* cleared part of the mask on the way.
C17_Witness ==
    /\ pc = "numpy_while"
    /\ NumEvents >= 3
    /\ shift - 1 = NumEvents - 1
    /\ \E p \in DOMAIN mask : ~mask[p]
    /\ \E p \in DOMAIN mask : mask[p]

\* C18: masking soundness: for every pair of positions (i, i+s) of the
\* segment whose lag is inside the counted window, mask[i] is still true when
\* shift s is processed, so no such pair is dropped whatever its position.
\* The counted window is the one of the sign = -1 pass, which counts every
\* lag up to window_size, window_size included.
C18_MaskingSound ==
    pc = "numpy_while" =>
        \A i \in 1..(NumEvents - shift) :
            (spikes[seg_index][i + shift].sample_index - spikes[seg_index][i].sample_index
                <= window_size) => mask[i]

\* C19: in the tensor correlogram_for_one_segment returns, the counts are
\* exactly one increment of [label[i+s], label[i], num_half_bins + floor(d/bin_size)]
\* and one of [label[i], label[i+s], num_half_bins + floor(-d/bin_size)] for
\* each pair of positions (i, i+s) whose lag d = time[i+s] - time[i] is
\* inside the window, d < window_size, and nothing else.
C19_EachPairOnce ==
    SegmentCounted =>
        \A A \in 0..(c0.shape[1] - 1), B \in 0..(c0.shape[2] - 1), k \in Bins :
            LET seg == spikes[seg_index]
                lag(p, q) == seg[q].sample_index - seg[p].sample_index
                later == {pq \in (1..Len(seg)) \X (1..Len(seg)) :
                            /\ pq[1] < pq[2]
                            /\ lag(pq[1], pq[2]) < window_size
                            /\ seg[pq[2]].unit_index = A
                            /\ seg[pq[1]].unit_index = B
                            /\ num_half_bins + FloorDiv(lag(pq[1], pq[2]), bin_size) = k}
                earlier == {pq \in (1..Len(seg)) \X (1..Len(seg)) :
                            /\ pq[1] < pq[2]
                            /\ lag(pq[1], pq[2]) < window_size
                            /\ seg[pq[1]].unit_index = A
                            /\ seg[pq[2]].unit_index = B
                            /\ num_half_bins + FloorDiv(-lag(pq[1], pq[2]), bin_size) = k}
            IN  At(c0, A, B, k) = Cardinality(later) + Cardinality(earlier)

\* the spike train of unit u in the segment the pairwise counter is working on
TrainOfUnit(u) ==
    TrainOf(SampleIndex(SegmentOf(spikes, seg_index)), UnitIndex(SegmentOf(spikes, seg_index)), u)

\* C20: two-pointer pruning: in the scan of the trains of two different
\* units, start_j never decreases and never moves past an index b that is
\* in the window for the current or a later a; the scan makes exactly one
\* increment, at num_half_bins + floor(d / bin_size), for every pair (a, b)
\* with -window_size <= d = time_i[a] - time_j[b] < window_size and none for
\* any other pair, and no write falls outside the histogram.
C20_TwoPointerPruning ==
    pc = "numba_prange" =>
        \A A \in Units, B \in Units : A # B =>
            LET t1 == TrainOfUnit(A)
                t2 == TrainOfUnit(B)
                sc == crosscorr_scan(t1, t2, window_size, bin_size)
                InWindow(a, b) == -window_size <= t1[a] - t2[b] /\ t1[a] - t2[b] < window_size
            IN  /\ Len(sc.starts) = Len(t1) + 1
                /\ \A a \in 1..Len(t1) : sc.starts[a] <= sc.starts[a + 1]
                /\ \A a \in 1..Len(t1) : \A b \in 1..Len(t2) :
                      b < sc.starts[a + 1] => \A a2 \in a..Len(t1) : ~InWindow(a2, b)
                /\ sc.h.oob = 0
                /\ \A k \in Bins :
                      sc.h.hist[k] =
                          Cardinality({ab \in (1..Len(t1)) \X (1..Len(t2)) :
                              /\ InWindow(ab[1], ab[2])
                              /\ num_half_bins + FloorDiv(t1[ab[1]] - t2[ab[2]], bin_size) = k})

\* C20 witness: a scan whose pointer moved past an index for some a and
\* which counted a pair of that a at or beyond the pointer.
C20_Witness ==
    /\ pc = "numba_prange"
    /\ \E A \in Units, B \in Units :
          /\ A # B
          /\ LET t1 == TrainOfUnit(A)
                 t2 == TrainOfUnit(B)
                 sc == crosscorr_scan(t1, t2, window_size, bin_size)
             IN  \E a \in 1..Len(t1), b \in 1..Len(t2) :
                    /\ sc.starts[a + 1] >= 2
                    /\ b >= sc.starts[a + 1]
                    /\ -window_size <= t1[a] - t2[b]
                    /\ t1[a] - t2[b] < window_size
                    /\ sc.h.hist[num_half_bins + FloorDiv(t1[a] - t2[b], bin_size)] >= 1

\* the bin coordinates the next iteration of the shift loop increments: for
\* each sign, num_half_bins + spike_diff_b[p] of every position p the mask
\* keeps in that pass
NextShiftBins ==
    LET spike_times == SampleIndex(SegmentOf(spikes, seg_index))
        spike_labels == UnitIndex(SegmentOf(spikes, seg_index))
        n == Len(spike_times) - shift
        binOf(sign, p) ==
            num_half_bins + FloorDiv((spike_times[p + shift] - spike_times[p]) * sign, bin_size)
        neg == ShiftPass(-1, spike_times, spike_labels, shift, mask, c0, bin_size, num_half_bins)
        pos == ShiftPass(1, spike_times, spike_labels, shift, neg.mask, neg.c0, bin_size, num_half_bins)
    IN  {binOf(-1, p) : p \in {q \in 1..n : neg.mask[q]}}
            \cup {binOf(1, p) : p \in {q \in 1..n : pos.mask[q]}}

\* C21: every increment of either counter targets a bin index in
\* [0, num_bins): the shift loop's next iteration increments bins of the
\* tensor only, and the pairwise kernels have made no write outside a
\* histogram.
C21_BinIndexInRange ==
    /\ (pc = "numpy_while" /\ MaskAny(mask, shift)) => NextShiftBins \subseteq Bins
    /\ oob = 0

\* the array names through which the counters hold the lent spike vector
BorrowedArrays == {"spike_times", "spike_labels", "spike_times.astype", "spike_labels.astype"}

C23_SelectReindexes ==
    pc = "selected" =>
        LET n == Len(unit_ids)
            idx(a) == CHOOSE i \in Units : UnitId(i) = unit_ids[a + 1]
        IN  /\ new_data.status = "ok"
            /\ new_data.ccgs.shape = <<n, n, num_bins>>
            /\ \A a \in 0..(n - 1), b \in 0..(n - 1), k \in Bins :
                  At(new_data.ccgs, a, b, k) = At(data.ccgs, idx(a), idx(b), k)
            /\ new_data.bins = data.bins
            /\ data = [status |-> "ok", ccgs |-> correlograms, bins |-> plan.bins]

\* C23 witness: the two units were requested in reverse order, of a tensor
\* whose two auto-correlograms differ, and the selection came back.
C23_Witness ==
    /\ pc = "selected"
    /\ unit_ids = <<UnitId(1), UnitId(0)>>
    /\ new_data.status = "ok"
    /\ new_data.ccgs # data.ccgs
    /\ \E k \in Bins : At(data.ccgs, 0, 0, k) # At(data.ccgs, 1, 1, k)

\* the caller passed storage_options other than None and {} (the loop over
\* storage_options_to_test rebinds storage_options to an element of the
\* tuple, which is the caller's dict exactly in this case)
OptionsSupplied == storage_options = "given"

C25_SegmentSlicesRoundTrip ==
    LET before == to_spike_vector(spikes)
        N == Len(before)
        S == Len(spikes)
    IN  /\ zarr_group # NoFile =>
              LET sl == zarr_group.segment_slices
              IN  /\ Len(sl) = S
                  /\ zarr_group.num_segments = S
                  /\ sl[1][1] = 0
                  /\ sl[S][2] = N
                  /\ \A i \in 1..S : sl[i][1] <= sl[i][2]
                  /\ \A i \in 1..(S - 1) : sl[i][2] = sl[i + 1][1]
                  /\ \A i \in 1..S : sl[i][2] - sl[i][1] = Len(spikes[i])
        /\ loaded # NoFile =>
              /\ loaded.num_segments = S
              /\ Len(loaded.spikes) = N
              /\ \A p \in 1..N :
                    /\ loaded.spikes[p].segment_index = before[p].segment_index
                    /\ loaded.spikes[p].sample_index = before[p].sample_index
                    /\ loaded.spikes[p].unit_index = before[p].unit_index

\* C25 witness: a sorting of three segments, the middle one empty and the
\* other two with spikes, was written and read back.
C25_Witness ==
    /\ Len(spikes) = 3
    /\ spikes[1] # <<>>
    /\ spikes[2] = <<>>
    /\ spikes[3] # <<>>
    /\ loaded # NoFile
    /\ zarr_group.segment_slices = <<<<0, 1>>, <<1, 1>>, <<1, 2>>>>
    /\ loaded.spikes[2].segment_index = 2

====
